---- MODULE Spec2Model ----
(***************************************************************************)
(* State-machine model of the HMLR public client (hmlr/client.py), the     *)
(* component factory (hmlr/core/component_factory.py) and the LangChain    *)
(* adapter (hmlr/integrations/langchain.py).                               *)
(*                                                                         *)
(* The classes the factory wires together (Storage, SlidingWindow,         *)
(* ConversationEngine, TheGovernor, ...) are imported by the factory but   *)
(* their code is not part of the sources; their behaviour is taken from    *)
(* the design document and is marked "design document" below.              *)
(*                                                                         *)
(* The client methods only read self.components and self.engine, so they   *)
(* are modelled over the bundle/engine pair that the factory produces.     *)
(***************************************************************************)
EXTENDS Integers, Sequences, FiniteSets, TLC

\* ---------------------------------------------------------------- bounds
MaxTurns == 3        \* the durable store never grows past this many turns
MaxInitTurns == 2    \* turns left in the store by earlier processes
MaxCapacity == 2     \* SlidingWindow capacities explored: 1..MaxCapacity
MaxBudget == 4       \* context_budget_tokens explored by the hydration: 0..MaxBudget
MaxBlockTokens == 2  \* token count of one context block: 1..MaxBlockTokens
MaxBlocks == 2       \* window turns, and retrieved nodes, handed to the hydration

\* ---------------------------------------------------------------- inputs
Messages == {"", "hi"}
SlidingWindowTurnsValues == {-1, 0, 1, 2}
BudgetValues == {-1, 0, 2}
\* crawler_recency_weight in tenths: -0.1, 0.3, 1.1
WeightValues == {-1, 3, 11}
Intents == {"clarification", "recall", "multi_hop"}

\* keyword parameters of create_all_components (component_factory.py:95-100)
FactoryParams ==
    {"use_llm_intent_mode", "max_sliding_window_turns",
     "context_budget_tokens", "crawler_recency_weight"}

\* keywords HMLRClient.__init__ passes to the factory (client.py:80-87)
ClientKwargs ==
    {"db_path", "use_llm_intent_mode", "context_budget_tokens",
     "max_sliding_window_turns", "crawler_recency_weight"}

\* fields of ComponentBundle (component_factory.py:33-72)
Components ==
    {"storage", "conversation_mgr", "sliding_window", "session_manager",
     "crawler", "intent_analyzer", "context_hydrator", "lattice_retrieval",
     "governor", "hydrator", "synthesis_manager", "user_profile_manager",
     "scribe", "chunk_engine", "fact_scrubber", "debug_logger",
     "metadata_extractor", "embedding_storage"}

\* the components built only when the external API client exists
ApiComponents == {"governor", "scribe", "fact_scrubber"}

VARIABLES
    store,            \* durable turn store: sequence of turns, oldest first
    snapshot,         \* sliding-window recovery file
    window_capacity,  \* capacity of the SlidingWindow class
    newest_first,     \* order in which the store returns recent turns
    phase,            \* "down" | "components" | "up"
    bundle,           \* ComponentBundle: which components are present
    external_api,     \* whether ExternalAPIClient() could be constructed
    window,           \* components.sliding_window.turns
    config,           \* arguments the running bundle was built with
    chat_task,        \* the chat() coroutine in flight
    last_op,          \* the operation that took the last step
    ret,              \* what that operation returned
    dropped,          \* history: the turns the last step took out of the window
    trail,            \* history: "clear", then "clear,exit", then "clear,exit,start"
    sized,            \* get_memory_stats applied to a store of a given size
    hydration         \* the hydrators applied to given context blocks

vars == <<store, snapshot, window_capacity, newest_first, phase, bundle,
          external_api,
          window, config, chat_task, last_op, ret, dropped, trail,
          sized, hydration>>

\* the state of the two function-level specifications
aside == <<sized, hydration>>

\* ------------------------------------------------------------ data model
Turn(n, text) == [seq |-> n, text |-> text]

Min(a, b) == IF a < b THEN a ELSE b
Max(a, b) == IF a > b THEN a ELSE b

\* the turns of `before` that are no longer in `after`
Removed(before, after) ==
    SelectSeq(before, LAMBDA t : \A i \in DOMAIN after : after[i] # t)

RECURSIVE Reverse(_)
Reverse(s) == IF s = <<>> THEN <<>> ELSE Append(Reverse(Tail(s)), Head(s))

\* how many turns a store of n turns returns for a query with `limit`
RecentCount(n, limit) == Min(Max(limit, 0), n)

\* Storage.get_recent_turns(day_id=None, limit): the `limit` most recent
\* turns across all days (design document 4.1; the order is a fixed property
\* of the store, newest-last or newest-first).
get_recent_turns(s, limit, nf) ==
    LET k == RecentCount(Len(s), limit)
        lastk == SubSeq(s, Len(s) - k + 1, Len(s))
    IN  IF nf THEN Reverse(lastk) ELSE lastk

\* SlidingWindow.add_turn (design document 4.2): append, and evict the
\* oldest turn when the length exceeds the capacity.
add_turn(w, t, cap) ==
    LET a == Append(w, t)
    IN  IF Len(a) > cap THEN Tail(a) ELSE a

\* SlidingWindow.load_from_file (design document 4.2): the recovered state,
\* empty when there is no recovery file.
load_from_file(file) == file

\* component_factory.py:162-163: for turn in recent_turns: add_turn(turn)
RECURSIVE AddAll(_, _, _)
AddAll(w, turns, cap) ==
    IF turns = <<>> THEN w
    ELSE AddAll(add_turn(w, Head(turns), cap), Tail(turns), cap)

NoBundle == [c \in Components |-> FALSE]

\* variant: the Scribe is built even without an API client
MakeBundle_scribe_always(api_ok) ==
    [c \in Components |->
       IF c \in ApiComponents \ {"scribe"} THEN api_ok ELSE TRUE]

\* variant: the Governor is built around a missing API client
MakeBundle_governor_always(api_ok) ==
    [c \in Components |->
       IF c \in ApiComponents \ {"governor"} THEN api_ok ELSE TRUE]

\* component_factory.py:186-239: the bundle holds every component; the
\* three API-backed ones are None when ExternalAPIClient() raised.
MakeBundle(api_ok) ==
    [c \in Components |-> IF c \in ApiComponents THEN api_ok ELSE TRUE]

\* Constructors of the retrieval components (design document 6): a negative
\* token budget or a recency weight outside [0,1] is rejected.
ComponentRejects(budget, weight) ==
    budget < 0 \/ weight < 0 \/ weight > 10

\* the fields an operation's outcome can have; each operation fills its own
NoReturn ==
    [raised |-> "no", turns |-> <<>>, total_turns |-> <<"none", 0>>,
     sliding_window_size |-> 0, status |-> "none", saved_input |-> "none",
     recovered |-> <<>>, backfill_queried |-> FALSE, io_failed |-> FALSE]

NoSized ==
    [store_size |-> 0, window_size |-> 0, asked |-> FALSE, io_failed |-> FALSE,
     total_turns |-> <<"none", 0>>, sliding_window_size |-> 0]

NoHydration == [asked |-> FALSE]

NoConfig == [max_sliding_window_turns |-> 0, context_budget_tokens |-> 0]

IdleTask == [pc |-> "idle", message |-> "", plan |-> <<>>]

\* contiguous runs of the store no longer than the capacity: the recovery
\* files an earlier process can have left (fresh when a suffix, else stale)
Snapshots(s, cap) ==
    {q \in {SubSeq(s, i, j) : i \in 1..(Len(s) + 1), j \in 0..Len(s)} :
        Len(q) <= cap}

InitialStore(k) == [i \in 1..k |-> Turn(i, "hi")]

Init ==
    /\ window_capacity \in 1..MaxCapacity
    /\ newest_first \in BOOLEAN
    /\ store \in {InitialStore(k) : k \in 0..MaxInitTurns}
    /\ snapshot \in Snapshots(store, window_capacity)
    /\ phase = "down"
    /\ bundle = NoBundle
    /\ external_api = FALSE
    /\ window = <<>>
    /\ config = NoConfig
    /\ chat_task = IdleTask
    /\ last_op = "none"
    /\ ret = NoReturn
    /\ dropped = <<>>
    /\ trail = ""
    /\ sized = NoSized
    /\ hydration = NoHydration

\* ------------------------------------------------- component_factory.py
\* variant: a one-turn recovered window is treated as no saved state
NeedsBackfill_short(recovered) == Len(recovered) <= 1

\* component_factory.py:157: backfill only when the recovered window is empty
NeedsBackfill(recovered) == Len(recovered) = 0

\* component_factory.py:155-170: load the window, or backfill it from the
\* store; an exception of the store is caught and printed (167-168), and as
\* get_recent_turns raises before the loop, nothing has been added then.
LoadSlidingWindow(N, io_fail) ==
    LET recovered == load_from_file(snapshot)
    IN  IF NeedsBackfill(recovered)
        THEN [recovered |-> recovered, backfill_queried |-> TRUE,
              io_failed |-> io_fail,
              turns |-> IF io_fail
                        THEN recovered
                        ELSE AddAll(recovered,
                                    get_recent_turns(store, N, newest_first),
                                    window_capacity)]
        ELSE [recovered |-> recovered, backfill_queried |-> FALSE,
              io_failed |-> FALSE, turns |-> recovered]

\* What one call of create_all_components does (component_factory.py:94-239)
\* when called with the keywords `kwargs`: the exception it raises ("no" when
\* it returns), the bundle and the window it returns, and what it did.
FactoryResult(kwargs, N, budget, weight, api_ok, io_fail) ==
    LET loaded == LoadSlidingWindow(N, io_fail)
        failed(e) ==
            [bundle |-> NoBundle, window |-> <<>>, config |-> NoConfig,
             external_api |-> FALSE,
             ret |-> [NoReturn EXCEPT !.raised = e]]
    IN  IF ~(kwargs \subseteq FactoryParams)
        THEN \* Python rejects an unexpected keyword argument
             failed("TypeError")
        ELSE IF ComponentRejects(budget, weight)
        THEN \* lines 145-151: a constructor raises, nothing catches it
             failed("ValueError")
        ELSE [bundle |-> MakeBundle(api_ok),
              window |-> loaded.turns,
              config |-> [max_sliding_window_turns |-> N,
                          context_budget_tokens |-> budget],
              external_api |-> api_ok,
              ret |-> [NoReturn EXCEPT
                         !.recovered = loaded.recovered,
                         !.backfill_queried = loaded.backfill_queried,
                         !.io_failed = loaded.io_failed]]

\* ComponentFactory.create_all_components called directly, as its docstring
\* shows (component_factory.py:82-91).
create_all_components ==
    /\ phase = "down"
    /\ \E N \in SlidingWindowTurnsValues, budget \in BudgetValues,
          weight \in WeightValues, api_ok \in BOOLEAN, io_fail \in BOOLEAN :
         LET r == FactoryResult(FactoryParams, N, budget, weight, api_ok, io_fail)
         IN  /\ bundle' = r.bundle
             /\ external_api' = r.external_api
             /\ window' = r.window
             /\ config' = r.config
             /\ ret' = r.ret
             /\ phase' = IF r.ret.raised = "no" THEN "components" ELSE "down"
    /\ last_op' = "create_all_components"
    /\ dropped' = <<>>
    /\ UNCHANGED aside
    /\ trail' = IF trail # "clear,exit" THEN ""
                 ELSE IF ret'.raised = "no" THEN "clear,exit,start" ELSE trail
    /\ UNCHANGED <<store, snapshot, window_capacity, newest_first, chat_task>>

\* ComponentFactory.create_conversation_engine (component_factory.py:241-282)
create_conversation_engine ==
    /\ phase = "components"
    /\ phase' = "up"
    /\ last_op' = "create_conversation_engine"
    /\ ret' = NoReturn
    /\ dropped' = <<>>
    /\ UNCHANGED aside
    /\ trail' = ""
    /\ UNCHANGED <<store, snapshot, window_capacity, newest_first, bundle, external_api,
                   window, config, chat_task>>

\* --------------------------------------------------------------- client.py
\* HMLRClient.__init__ (client.py:35-94): create_all_components is called
\* with ClientKwargs, then create_conversation_engine with its result.
HMLRClient_init ==
    /\ phase = "down"
    /\ \E N \in SlidingWindowTurnsValues, budget \in BudgetValues,
          weight \in WeightValues, api_ok \in BOOLEAN, io_fail \in BOOLEAN :
         LET r == FactoryResult(ClientKwargs, N, budget, weight, api_ok, io_fail)
         IN  /\ bundle' = r.bundle
             /\ external_api' = r.external_api
             /\ window' = r.window
             /\ config' = r.config
             /\ ret' = r.ret
             /\ phase' = IF r.ret.raised = "no" THEN "up" ELSE "down"
    /\ last_op' = "HMLRClient.__init__"
    /\ dropped' = <<>>
    /\ UNCHANGED aside
    /\ trail' = IF trail # "clear,exit" THEN ""
                 ELSE IF ret'.raised = "no" THEN "clear,exit,start" ELSE trail
    /\ UNCHANGED <<store, snapshot, window_capacity, newest_first, chat_task>>

ClientUp == phase = "up"

\* HMLRClient.chat (client.py:96-126), first half: the message is handed to
\* engine.process_user_message as it is (116-120) and the coroutine awaits.
chat ==
    /\ ClientUp
    /\ chat_task.pc = "idle"
    /\ Len(store) < MaxTurns
    /\ \E message \in Messages :
         chat_task' = [pc |-> "engine", message |-> message, plan |-> <<>>]
    /\ last_op' = "chat"
    /\ ret' = NoReturn
    /\ dropped' = <<>>
    /\ UNCHANGED aside
    /\ trail' = ""
    /\ UNCHANGED <<store, snapshot, window_capacity, newest_first, phase,
                   bundle, external_api, window, config>>

\* TheGovernor.decide (design document 4.6): continuation intents get the
\* zero-hop plan, recall and multi-entity intents a deeper one, bounded by
\* the token budget.
decide(intent, budget) ==
    IF intent = "clarification" THEN 0
    ELSE IF intent = "recall" THEN Min(1, budget)
    ELSE Min(2, budget)

ShallowPlan == 0

\* ConversationEngine.process_user_message up to the completion call (design
\* document 2 item 11, 4.6, 9): the engine was given components.governor
\* (component_factory.py:267) and branches on its presence.
RetrievalPlan(governor_present, intent, budget) ==
    IF governor_present THEN decide(intent, budget) ELSE ShallowPlan

engine_plan ==
    /\ chat_task.pc = "engine"
    /\ \E intent \in Intents :
         chat_task' =
           [chat_task EXCEPT
              !.pc = "completion",
              !.plan = <<RetrievalPlan(bundle["governor"], intent,
                                       config.context_budget_tokens)>>]
    /\ last_op' = "engine_plan"
    /\ ret' = NoReturn
    /\ dropped' = <<>>
    /\ UNCHANGED aside
    /\ trail' = ""
    /\ UNCHANGED <<store, snapshot, window_capacity, newest_first, phase,
                   bundle, external_api, window, config>>

\* how a turn can end in the engine (design document 4.1, 6, 7): answered
\* and persisted; completion service unreachable; durable write failed
ChatOutcomes == {"success", "completion_unavailable", "store_failure"}

\* ConversationEngine.process_user_message after the completion call (design
\* document 2 item 11): persistence, sliding-window update, snapshot save.
\* When the completion service is unreachable nothing is persisted and the
\* response has status "error"; a failed durable write raises.
Persist(message, outcome) ==
    LET turn == Turn(Len(store) + 1, message)
    IN  IF outcome = "success"
        THEN /\ store' = Append(store, turn)
             /\ window' = add_turn(window, turn, window_capacity)
             /\ snapshot' = window'
        ELSE UNCHANGED <<store, window, snapshot>>

\* what chat returns (client.py:122-126) or raises for an engine outcome
ChatReturn(outcome) ==
    IF outcome = "success" THEN [NoReturn EXCEPT !.status = "success"]
    ELSE IF outcome = "completion_unavailable"
    THEN [NoReturn EXCEPT !.status = "error"]
    ELSE [NoReturn EXCEPT !.raised = "IOError"]

engine_append ==
    /\ chat_task.pc = "completion"
    /\ \E outcome \in ChatOutcomes :
         /\ Persist(chat_task.message, outcome)
         /\ ret' = ChatReturn(outcome)
    /\ chat_task' = IdleTask
    /\ last_op' = "engine_append"
    /\ dropped' = Removed(window, window')
    /\ UNCHANGED aside
    /\ trail' = ""
    /\ UNCHANGED <<window_capacity, newest_first, phase, bundle, external_api, config>>

\* client.py:143: the limit get_memory_stats asks the store for
StatsLimit == 100000

\* variant: counting the window consumes its oldest turn
get_memory_stats_draining ==
    /\ ClientUp
    /\ window # <<>>
    /\ window' = Tail(window)
    /\ ret' = [NoReturn EXCEPT
                 !.total_turns = <<"known", Len(store)>>,
                 !.sliding_window_size = Len(window)]
    /\ last_op' = "get_memory_stats"
    /\ dropped' = <<>>
    /\ UNCHANGED aside
    /\ trail' = ""
    /\ UNCHANGED <<store, snapshot, window_capacity, newest_first, phase,
                   bundle, external_api, config, chat_task>>

\* HMLRClient.get_memory_stats (client.py:128-153)
get_memory_stats ==
    /\ ClientUp
    /\ \E io_fail \in BOOLEAN :
         ret' = [NoReturn EXCEPT
                   !.total_turns =
                      IF io_fail
                      THEN <<"unknown", 0>>
                      ELSE <<"known",
                             Len(get_recent_turns(store, StatsLimit, newest_first))>>,
                   !.io_failed = io_fail,
                   !.sliding_window_size = Len(window)]
    /\ last_op' = "get_memory_stats"
    /\ dropped' = <<>>
    /\ UNCHANGED aside
    /\ trail' = ""
    /\ UNCHANGED <<store, snapshot, window_capacity, newest_first, phase,
                   bundle, external_api, window, config, chat_task>>

RecentLimits == {1, 10}

\* HMLRClient.get_recent_conversations (client.py:155-166)
get_recent_conversations ==
    /\ ClientUp
    /\ \E limit \in RecentLimits, io_fail \in BOOLEAN :
         ret' = IF io_fail
                THEN [NoReturn EXCEPT !.raised = "IOError", !.io_failed = TRUE]
                ELSE [NoReturn EXCEPT
                        !.turns = get_recent_turns(store, limit, newest_first)]
    /\ last_op' = "get_recent_conversations"
    /\ dropped' = <<>>
    /\ UNCHANGED aside
    /\ trail' = ""
    /\ UNCHANGED <<store, snapshot, window_capacity, newest_first, phase,
                   bundle, external_api, window, config, chat_task>>

\* variant: clearing also wipes the durable store
ClearSlidingWindow_and_store(caller) ==
    /\ ClientUp
    /\ window' = <<>>
    /\ store' = <<>>
    /\ last_op' = caller
    /\ ret' = NoReturn
    /\ dropped' = Removed(window, window')
    /\ UNCHANGED aside
    /\ trail' = "clear"
    /\ UNCHANGED <<snapshot, window_capacity, newest_first, phase,
                   bundle, external_api, config, chat_task>>

\* HMLRClient.clear_sliding_window (client.py:168-176), on behalf of `caller`
ClearSlidingWindow(caller) ==
    /\ ClientUp
    /\ window' = <<>>
    /\ last_op' = caller
    /\ ret' = NoReturn
    /\ dropped' = Removed(window, window')
    /\ UNCHANGED aside
    /\ trail' = "clear"
    /\ UNCHANGED <<store, snapshot, window_capacity, newest_first, phase,
                   bundle, external_api, config, chat_task>>

clear_sliding_window == ClearSlidingWindow("clear_sliding_window")

\* ---------------------------------------------------------- langchain.py
\* HMLRMemory.clear (langchain.py:119-134): warns, then calls
\* hmlr_client.clear_sliding_window()
HMLRMemory_clear == ClearSlidingWindow("HMLRMemory.clear")

\* the `inputs` dictionaries explored: without "input" key, with an empty
\* and with a non-empty "input"
SaveInputs == {"<absent>", "", "hi"}
SaveOutputs == {"fine", "other"}

\* langchain.py:105: inputs.get("input", "")
UserMessage(inputs) == IF inputs = "<absent>" THEN "" ELSE inputs

\* variant: the empty-input check is missing
SkipsSave_never(user_message) == FALSE

\* langchain.py:107-108: if not user_message: return
SkipsSave(user_message) == user_message = ""

\* HMLRMemory.save_context (langchain.py:93-117). asyncio.run drives chat to
\* its end before it returns, and raises RuntimeError when an event loop is
\* already running, which is the case while a chat() is in flight; whatever
\* is raised is caught and printed (115-117).
save_context ==
    /\ ClientUp
    /\ \E inputs \in SaveInputs, outputs \in SaveOutputs :
         LET user_message == UserMessage(inputs)
             result(st) == [NoReturn EXCEPT !.status = st, !.saved_input = inputs]
         IN  IF SkipsSave(user_message)
             THEN /\ UNCHANGED <<store, window, snapshot>>
                  /\ ret' = result("skipped")
             ELSE IF chat_task.pc # "idle"
             THEN /\ UNCHANGED <<store, window, snapshot>>
                  /\ ret' = result("save_failed")
             ELSE \E outcome \in ChatOutcomes :
                    /\ outcome = "success" => Len(store) < MaxTurns
                    /\ Persist(user_message, outcome)
                    /\ ret' = result(IF ChatReturn(outcome).raised = "no"
                                     THEN "saved" ELSE "save_failed")
    /\ last_op' = "save_context"
    /\ dropped' = Removed(window, window')
    /\ UNCHANGED aside
    /\ trail' = ""
    /\ UNCHANGED <<window_capacity, newest_first, phase, bundle, external_api,
                   config, chat_task>>

\* ---------------------------------------------------------- environment
\* The process ends (design document 6): what is in memory is lost, the
\* durable store and the recovery file stay.
process_exit ==
    /\ phase # "down"
    /\ phase' = "down"
    /\ bundle' = NoBundle
    /\ external_api' = FALSE
    /\ window' = <<>>
    /\ config' = NoConfig
    /\ chat_task' = IdleTask
    /\ last_op' = "process_exit"
    /\ ret' = NoReturn
    /\ dropped' = <<>>
    /\ UNCHANGED aside
    /\ trail' = IF trail = "clear" THEN "clear,exit" ELSE ""
    /\ UNCHANGED <<store, snapshot, window_capacity, newest_first>>

Next ==
    \/ create_all_components
    \/ create_conversation_engine
    \/ HMLRClient_init
    \/ chat
    \/ engine_plan
    \/ engine_append
    \/ get_memory_stats
    \/ get_recent_conversations
    \/ clear_sliding_window
    \/ HMLRMemory_clear
    \/ save_context
    \/ process_exit

Spec == Init /\ [][Next]_vars
\* ------------------------------------------- get_memory_stats by store size
\* The dictionary get_memory_stats returns (client.py:139-153) for a store
\* of n_store turns and a window of n_window turns: len() of what
\* get_recent_turns(limit=100000) returned, or "unknown" when it raised.
MemoryStats(n_store, n_window, io_fail) ==
    [total_turns |-> IF io_fail
                     THEN <<"unknown", 0>>
                     ELSE <<"known", RecentCount(n_store, StatsLimit)>>,
     sliding_window_size |-> n_window]

\* store sizes explored: small ones and the ones around the query limit
StoreSizes ==
    (0..MaxTurns) \cup {StatsLimit + d : d \in (0 - MaxTurns)..MaxTurns}

\* everything but `sized` is as in a process that has not started
Quiescent ==
    /\ window_capacity = 1
    /\ newest_first = FALSE
    /\ store = <<>>
    /\ snapshot = <<>>
    /\ phase = "down"
    /\ bundle = NoBundle
    /\ external_api = FALSE
    /\ window = <<>>
    /\ config = NoConfig
    /\ chat_task = IdleTask
    /\ last_op = "none"
    /\ ret = NoReturn
    /\ dropped = <<>>
    /\ trail = ""

main_vars ==
    <<store, snapshot, window_capacity, newest_first, phase, bundle,
      external_api, window, config, chat_task, last_op, ret, dropped, trail>>

StatsInit ==
    /\ Quiescent
    /\ hydration = NoHydration
    /\ \E n \in StoreSizes, w \in 0..MaxTurns :
         sized = [NoSized EXCEPT !.store_size = n, !.window_size = w]

\* HMLRClient.get_memory_stats (client.py:128-153) on a store of
\* sized.store_size turns
count_turns ==
    /\ ~sized.asked
    /\ \E io_fail \in BOOLEAN :
         LET stats == MemoryStats(sized.store_size, sized.window_size, io_fail)
         IN  sized' = [sized EXCEPT
                         !.asked = TRUE,
                         !.io_failed = io_fail,
                         !.total_turns = stats.total_turns,
                         !.sliding_window_size = stats.sliding_window_size]
    /\ UNCHANGED <<main_vars, hydration>>

StatsNext == count_turns

StatsSpec == StatsInit /\ [][StatsNext]_vars

\* ------------------------------------------------------------- hydration
\* variant: the Hydrator is built with the factory's default budget
HydratorBudgets_default(budget) ==
    [context_hydrator |-> budget, hydrator |-> 6000]

\* component_factory.py:146,151: ContextHydrator(max_tokens=...) and
\* Hydrator(token_limit=...) both get context_budget_tokens
HydratorBudgets(budget) ==
    [context_hydrator |-> budget, hydrator |-> budget]

Block(kind, tokens) == [kind |-> kind, tokens |-> tokens]

RECURSIVE TokenCount(_)
TokenCount(blocks) ==
    IF blocks = <<>> THEN 0
    ELSE Head(blocks).tokens + TokenCount(Tail(blocks))

\* the candidate blocks in priority order (design document 4.7): window
\* turns, most recent first; retrieved nodes by rank; the profile summary
Prioritised(window_tokens, node_tokens, profile_tokens) ==
    [i \in 1..Len(window_tokens) |->
        Block("window", window_tokens[Len(window_tokens) + 1 - i])]
    \o [i \in 1..Len(node_tokens) |-> Block("node", node_tokens[i])]
    \o (IF profile_tokens > 0 THEN <<Block("profile", profile_tokens)>> ELSE <<>>)

\* hydrate (design document 4.7): whole blocks are dropped from the lowest
\* priority upward until the rest fits the token budget
RECURSIVE DropToFit(_, _)
DropToFit(blocks, token_budget) ==
    IF blocks = <<>> \/ TokenCount(blocks) <= token_budget THEN blocks
    ELSE DropToFit(SubSeq(blocks, 1, Len(blocks) - 1), token_budget)

hydrate(window_tokens, node_tokens, profile_tokens, token_budget) ==
    DropToFit(Prioritised(window_tokens, node_tokens, profile_tokens),
              token_budget)

TokenSeqs ==
    UNION {[1..n -> 1..MaxBlockTokens] : n \in 0..MaxBlocks}

HydrateInit ==
    /\ Quiescent
    /\ sized = NoSized
    /\ \E budget \in 0..MaxBudget, w \in TokenSeqs, n \in TokenSeqs,
          p \in 0..MaxBlockTokens :
         hydration = [asked |-> FALSE, context_budget_tokens |-> budget,
                      window_tokens |-> w, node_tokens |-> n,
                      profile_tokens |-> p, by |-> "none", context |-> <<>>]

\* one hydration by one of the two hydrators the factory built
hydrate_context ==
    /\ ~hydration.asked
    /\ ~ComponentRejects(hydration.context_budget_tokens, 0)
    /\ \E by \in {"context_hydrator", "hydrator"} :
         hydration' =
           [hydration EXCEPT
              !.asked = TRUE,
              !.by = by,
              !.context =
                 hydrate(hydration.window_tokens, hydration.node_tokens,
                         hydration.profile_tokens,
                         HydratorBudgets(hydration.context_budget_tokens)[by])]
    /\ UNCHANGED <<main_vars, sized>>

HydrateNext == hydrate_context

HydrateSpec == HydrateInit /\ [][HydrateNext]_vars

\* ================================================================ claims
Started == phase # "down"

StartupReturned ==
    /\ last_op \in {"create_all_components", "HMLRClient.__init__"}
    /\ ret.raised = "no"

IsSuffix(q, s) ==
    /\ Len(q) <= Len(s)
    /\ q = SubSeq(s, Len(s) - Len(q) + 1, Len(s))

\* the `n` most recent turns of the store, oldest first
MostRecent(s, n) == SubSeq(s, Len(s) - Min(Max(n, 0), Len(s)) + 1, Len(s))

\* C1: a step of clear_sliding_window or HMLRMemory.clear leaves the window
\* empty and the durable store as it was, so every recent-turns query returns
\* after the clear what it returned before it.
C1_ClearKeepsDurableStore ==
    [][(last_op' \in {"clear_sliding_window", "HMLRMemory.clear"}) =>
         /\ window' = <<>>
         /\ store' = store
         /\ \A limit \in RecentLimits :
              get_recent_turns(store', limit, newest_first')
                = get_recent_turns(store, limit, newest_first)]_vars

\* C1 witness: a clear has just emptied a non-empty window while the durable
\* store holds turns
C1_Witness ==
    /\ last_op = "clear_sliding_window"
    /\ dropped # <<>>
    /\ window = <<>>
    /\ store # <<>>

\* C2 (as claimed): with N = max_sliding_window_turns >= 1, the window never
\* holds more than N turns after startup.
C2_WindowBoundedByConfiguredTurns ==
    (Started /\ config.max_sliding_window_turns >= 1)
        => Len(window) <= config.max_sliding_window_turns

\* C3: when create_all_components returns, a non-empty recovered snapshot is
\* the window and the store was not read; the store is read for backfill
\* exactly when the recovered window is empty.
C3_PreferRecoveredWindow ==
    StartupReturned =>
        /\ ret.recovered # <<>> => (window = ret.recovered /\ ~ret.backfill_queried)
        /\ ret.backfill_queried <=> (ret.recovered = <<>>)

\* C3 witness: startup kept a recovered snapshot although the store holds
\* more turns than it
C3_Witness ==
    /\ StartupReturned
    /\ ret.recovered # <<>>
    /\ window = ret.recovered
    /\ Len(store) > Len(ret.recovered)

\* C4 (as claimed): when the snapshot is absent or stale at startup, and the
\* store can be read, the window afterwards is the most recent N durable
\* turns, oldest first.
C4_BackfillMostRecentTurns ==
    (/\ StartupReturned
     /\ ~ret.io_failed
     /\ config.max_sliding_window_turns >= 1
     /\ (snapshot = <<>> \/ ~IsSuffix(snapshot, store)))
        => window = MostRecent(store, config.max_sliding_window_turns)

\* C5 (as claimed): no bundle exists that was built with a negative token
\* budget or with max_sliding_window_turns below one.
C5_InvalidConfigurationRejected ==
    Started =>
        /\ config.max_sliding_window_turns >= 1
        /\ config.context_budget_tokens >= 0

\* C6 (as claimed): the conversation engine is never handed an empty message.
C6_EmptyMessageNotPassedToEngine ==
    chat_task.pc # "idle" => chat_task.message # ""

\* C7 (as claimed): an operation that hit a store read failure does not
\* return normally.
C7_StoreFailureSurfaced ==
    ret.io_failed => ret.raised # "no"

\* C8: in every bundle the factory returns, governor, scribe and
\* fact_scrubber are present exactly when the external API client could be
\* constructed, and every other component is present.
C8_ApiComponentsAllOrNone ==
    Started =>
        /\ \A c \in ApiComponents : bundle[c] = external_api
        /\ \A c \in Components \ ApiComponents : bundle[c]

\* C8 witness: a running client whose bundle lacks the three API components
C8_Witness ==
    /\ phase = "up"
    /\ ~external_api
    /\ ~bundle["governor"] /\ ~bundle["scribe"] /\ ~bundle["fact_scrubber"]
    /\ bundle["storage"] /\ bundle["sliding_window"]

C10_OnlyEngineWrites ==
    [][(phase = "up" /\ phase' = "up" /\ chat_task.pc # "idle"
          /\ window' # window)
          => last_op' = "engine_append"]_vars

\* C10 (amended): while the client runs, the window changes only by the
\* engine's append of the finished turn (in a chat, called directly or by
\* save_context) or by a clear; get_memory_stats and
\* get_recent_conversations leave it as it is.
C10_WritersAreEngineAndClear ==
    [][(phase = "up" /\ phase' = "up" /\ window' # window)
          => \/ /\ last_op' \in {"engine_append", "save_context"}
                /\ window' = add_turn(window, store'[Len(store')], window_capacity)
             \/ /\ last_op' \in {"clear_sliding_window", "HMLRMemory.clear"}
                /\ window' = <<>>]_vars

\* C10 witness: get_memory_stats has run while a chat is in flight
C10_Witness ==
    /\ chat_task.pc = "completion"
    /\ last_op = "get_memory_stats"
    /\ window # <<>>

\* C11 (as claimed): HMLRClient.__init__ called with its documented keyword
\* arguments is not refused: it never ends in a TypeError of the factory call.
C11_ClientConstructionCompletes ==
    last_op = "HMLRClient.__init__" => ret.raised # "TypeError"

\* C12 (as claimed): when the store can be read, total_turns is the number of
\* turns in the durable store, whatever its size, and sliding_window_size is
\* the length of the window.
C12_TotalTurnsIsStoreSize ==
    (sized.asked /\ ~sized.io_failed) =>
        /\ sized.total_turns = <<"known", sized.store_size>>
        /\ sized.sliding_window_size = sized.window_size

\* C13: the hydrated context of either hydrator never has more tokens than
\* the configured context_budget_tokens, and it is the candidate blocks in
\* priority order with only the lowest-priority ones left out, each whole.
C13_HydrationWithinBudget ==
    hydration.asked =>
        LET all == Prioritised(hydration.window_tokens, hydration.node_tokens,
                               hydration.profile_tokens)
            kept == hydration.context
        IN  /\ TokenCount(kept) <= hydration.context_budget_tokens
            /\ Len(kept) <= Len(all)
            /\ kept = SubSeq(all, 1, Len(kept))

\* C13 witness: a hydration that had to drop blocks and kept some
C13_Witness ==
    /\ hydration.asked
    /\ hydration.by = "hydrator"
    /\ hydration.context # <<>>
    /\ hydration.profile_tokens > 0
    /\ Len(hydration.context)
         < Len(hydration.window_tokens) + Len(hydration.node_tokens) + 1
    /\ TokenCount(hydration.context) <= hydration.context_budget_tokens

\* C14: save_context always returns normally; with no non-empty "input" it
\* starts no chat and changes nothing; otherwise the only thing it can store
\* is a turn with the input text, whatever `outputs` is.
C14_SaveContextNeverRaises ==
    [][(last_op' = "save_context") =>
         /\ ret'.raised = "no"
         /\ chat_task' = chat_task
         /\ (ret'.saved_input \in {"<absent>", ""}) =>
               (/\ ret'.status = "skipped"
                /\ store' = store /\ window' = window /\ snapshot' = snapshot)
         /\ \/ store' = store
            \/ store' = Append(store, Turn(Len(store) + 1, ret'.saved_input))]_vars

\* C14 witness: chat raised inside save_context, which returned normally
C14_Witness ==
    /\ last_op = "save_context"
    /\ ret.saved_input = "hi"
    /\ ret.status = "save_failed"
    /\ ret.raised = "no"
    /\ chat_task.pc = "idle"

\* C15 (as claimed): when the process is restarted right after a clear and
\* create_all_components returns, the window is non-empty whenever the
\* recovery snapshot or the durable store is non-empty.
C15_ClearDoesNotSurviveRestart ==
    (/\ trail = "clear,exit,start"
     /\ (snapshot # <<>> \/ store # <<>>))
        => window # <<>>
====
